---- MODULE Spec2Model ----
(***************************************************************************)
(* Model of the Gemini MCP server: the tools/list and tools/call request   *)
(* handlers of GeminiMcpServer, the three tool handlers and the three      *)
(* GeminiClient operations, with the filesystem and the external           *)
(* generation API as the environment.                                      *)
(*                                                                         *)
(* A JavaScript string is a sequence of tokens (a token is a run of        *)
(* characters such as "/", ".", "out"); concatenation is \o.  A JavaScript *)
(* value is a record [t, s]: t is its type, s its string content.          *)
(* Every async handler runs atomically from one await to the next; each    *)
(* await of an fs call or of the API call is one action, taken when the    *)
(* awaited operation completes.                                            *)
(*                                                                         *)
(* Spec is the server under every request of the input sets; FairSpec adds *)
(* that awaited operations complete, over a smaller set of requests;       *)
(* MimeSpec runs analyze_media and manipulate_media on files of every      *)
(* extension of the MIME table.                                            *)
(***************************************************************************)
EXTENDS Integers, Sequences, FiniteSets, TLC

\* Number of tools/call and tools/list requests the caller sends (ids 1..MaxReq).
MaxReq == 2

----------------------------------------------------------------------------
\* JavaScript values

Undefined == [t |-> "undefined", s |-> <<>>]

Str(s) == [t |-> "string", s |-> s]

\* the number 42: a truthy value that is not a string
Num42 == [t |-> "number", s |-> <<"42">>]

\* JavaScript truthiness, as tested by `!prompt`, `!apiKey`, `a || b`
Truthy(v) == \/ v.t = "string" /\ v.s # <<>>
             \/ v.t = "number"

\* a || b
OrElse(a, b) == IF Truthy(a) THEN a ELSE b

\* String.prototype.endsWith
endsWith(s, suffix) ==
    /\ Len(suffix) <= Len(s)
    /\ SubSeq(s, Len(s) - Len(suffix) + 1, Len(s)) = suffix

\* String.prototype.startsWith
startsWith(s, prefix) ==
    /\ Len(prefix) <= Len(s)
    /\ SubSeq(s, 1, Len(prefix)) = prefix

\* String.prototype.split on a one-token separator: the list of pieces
\* (v is the value of s: the argument is evaluated once per call)
RECURSIVE split(_, _)
split(s, sep) ==
    CHOOSE pieces \in
      { IF \A i \in 1..Len(v) : v[i] # sep
        THEN <<v>>
        ELSE LET i == CHOOSE k \in 1..Len(v) :
                         v[k] = sep /\ \A j \in 1..(k - 1) : v[j] # sep
             IN  <<SubSeq(v, 1, i - 1)>> \o split(SubSeq(v, i + 1, Len(v)), sep)
        : v \in {s} } : TRUE

----------------------------------------------------------------------------
\* path.join of Node's posix path module

\* normalizeString: drop "" and ".", resolve ".." against the segment before it
\* (sg and rs are the values of segs and res, evaluated once per call)
RECURSIVE normalizeString(_, _, _)
normalizeString(segs, res, allowAboveRoot) ==
    CHOOSE out \in
      { IF sg = <<>> THEN rs
        ELSE LET seg  == Head(sg)
                 rest == Tail(sg)
             IN  IF seg = <<>> \/ seg = <<".">>
                 THEN normalizeString(rest, rs, allowAboveRoot)
                 ELSE IF seg = <<".", ".">>
                 THEN IF rs # <<>> /\ rs[Len(rs)] # <<".", ".">>
                      THEN normalizeString(rest, SubSeq(rs, 1, Len(rs) - 1), allowAboveRoot)
                      ELSE IF allowAboveRoot
                      THEN normalizeString(rest, Append(rs, seg), allowAboveRoot)
                      ELSE normalizeString(rest, rs, allowAboveRoot)
                 ELSE normalizeString(rest, Append(rs, seg), allowAboveRoot)
        : sg \in {segs}, rs \in {res} } : TRUE

\* segments put back together with "/" between them
RECURSIVE joinSegs(_)
joinSegs(segs) ==
    IF segs = <<>> THEN <<>>
    ELSE IF Len(segs) = 1 THEN segs[1]
    ELSE segs[1] \o <<"/">> \o joinSegs(Tail(segs))

\* path.normalize
normalize(p) ==
    IF p = <<>> THEN <<".">>
    ELSE LET isAbsolute == p[1] = "/"
             trailing   == p[Len(p)] = "/"
             body       == joinSegs(normalizeString(split(p, "/"), <<>>, ~isAbsolute))
         IN  IF body = <<>>
             THEN IF isAbsolute THEN <<"/">>
                  ELSE IF trailing THEN <<".", "/">> ELSE <<".">>
             ELSE (IF isAbsolute THEN <<"/">> ELSE <<>>) \o body
                  \o (IF trailing THEN <<"/">> ELSE <<>>)

\* path.join(a, b) of two strings: zero-length arguments are skipped
pathJoin(a, b) ==
    IF a = <<>> /\ b = <<>> THEN <<".">>
    ELSE IF a = <<>> THEN normalize(b)
    ELSE IF b = <<>> THEN normalize(a)
    ELSE normalize(a \o <<"/">> \o b)

\* path.dirname of a normalized absolute path
dirname(p) ==
    LET segs == normalizeString(split(p, "/"), <<>>, FALSE)
    IN  IF Len(segs) <= 1 THEN <<"/">>
        ELSE <<"/">> \o joinSegs(SubSeq(segs, 1, Len(segs) - 1))

\* a directory and every ancestor of it (what mkdir -p makes exist)
RECURSIVE ancestors(_)
ancestors(d) == IF d = <<"/">> THEN {d} ELSE {d} \cup ancestors(dirname(d))

\* path.extname: p[k..e] is the extension when e is the last character that is
\* not a trailing "/", k the last "." of the last path component, the "." does
\* not start the component and the component is not ".."
ExtensionAt(p, k, e) ==
    /\ k <= e
    /\ p[e] # "/"
    /\ \A j \in (e + 1)..Len(p) : p[j] = "/"
    /\ p[k] = "."
    /\ \A j \in (k + 1)..e : p[j] \notin {".", "/"}
    /\ k > 1
    /\ p[k - 1] # "/"
    /\ ~(k = e /\ p[k - 1] = "." /\ (k = 2 \/ p[k - 2] = "/"))

\* path.extname: the extension with its ".", or the empty string
extname(p) ==
    IF \E k, e \in 1..Len(p) : ExtensionAt(p, k, e)
    THEN LET ke == CHOOSE x \in (1..Len(p)) \X (1..Len(p)) : ExtensionAt(p, x[1], x[2])
         IN  SubSeq(p, ke[1], ke[2])
    ELSE <<>>

\* String.prototype.toLowerCase, token by token (v is the value of s)
toLowerCase(s) ==
    CHOOSE lower \in
      { [i \in 1..Len(v) |->
            CASE v[i] = "JPG"  -> "jpg"
              [] v[i] = "Jpeg" -> "jpeg"
              [] v[i] = "PNG"  -> "png"
              [] v[i] = "MP4"  -> "mp4"
              [] OTHER         -> v[i]]
        : v \in {s} } : TRUE

----------------------------------------------------------------------------
\* Program constants

\* the fallback of GEMINI_OUTPUT_DIR: '/tmp/gemini_mcp'
DefaultOutputDir == <<"/", "tmp", "/", "gemini_mcp">>

\* the fallback of GEMINI_MODEL: 'gemini-2.5-flash'
DefaultModel == <<"gemini-2.5-flash">>

\* mutant: the catalog lists two of the three tools
ToolCatalog_missingTool ==
    << [name |-> "generate_media", required |-> <<"prompt", "outputFile">>],
       [name |-> "analyze_media",  required |-> <<"filePath", "prompt">>] >>

\* the tool catalog returned by tools/list, in its order
ToolCatalog ==
    << [name |-> "generate_media",   required |-> <<"prompt", "outputFile">>],
       [name |-> "analyze_media",    required |-> <<"filePath", "prompt">>],
       [name |-> "manipulate_media", required |-> <<"inputFile", "prompt", "outputFile">>] >>

\* mutant: the switch has no case for manipulate_media
SwitchCases_missingCase == {"generate_media", "analyze_media"}

\* the names the switch of the tools/call handler has a case for
SwitchCases == {"generate_media", "analyze_media", "manipulate_media"}

\* mutant: the handlers do not test outputFile
RequiredChecks_outputFileUntested(name) ==
    CASE name = "generate_media"   -> <<"prompt">>
      [] name = "analyze_media"    -> <<"filePath", "prompt">>
      [] name = "manipulate_media" -> <<"inputFile", "prompt">>

\* the parameters each tool handler tests with `if (!x) throw`, in the order of the tests
RequiredChecks(name) ==
    CASE name = "generate_media"   -> <<"prompt", "outputFile">>
      [] name = "analyze_media"    -> <<"filePath", "prompt">>
      [] name = "manipulate_media" -> <<"inputFile", "prompt", "outputFile">>

\* the client operation each tool handler calls
ClientOp(name) ==
    CASE name = "generate_media"   -> "generateImage"
      [] name = "analyze_media"    -> "analyzeMedia"
      [] name = "manipulate_media" -> "manipulateMedia"

\* the tool handler each case of the switch calls
ToolHandler(name) ==
    CASE name = "generate_media"   -> "generateMediaTool"
      [] name = "analyze_media"    -> "analyzeMediaTool"
      [] name = "manipulate_media" -> "manipulateMediaTool"

\* mutant: the generate_media case falls through into the analyze_media case
Dispatch_fallThrough(name) ==
    IF name = "generate_media" THEN <<"generateMediaTool", "analyzeMediaTool">>
    ELSE IF name \in SwitchCases THEN <<ToolHandler(name)>>
    ELSE <<>>

\* switch (name): the handlers one tools/call invokes; none on the default case
Dispatch(name) == IF name \in SwitchCases THEN <<ToolHandler(name)>> ELSE <<>>

\* mutant: generateImage returns the path without awaiting fs.writeFile
generateImageSteps_unawaitedWrite == <<"mkdir", "api">>

\* mutant: analyzeMedia calls ensureOutputDir first, as manipulateMedia does
analyzeMediaSteps_ensureOutputDir == <<"mkdir", "read", "api">>

\* mutant: analyzeMedia sends the request before it reads the file
analyzeMediaSteps_apiBeforeRead == <<"api", "read">>

\* the awaited operations of each client operation, in program order
generateImageSteps == <<"mkdir", "api", "write">>

analyzeMediaSteps == <<"read", "api">>

manipulateMediaSteps == <<"mkdir", "read", "api", "write">>

Steps(op) ==
    CASE op = "generateImage"   -> generateImageSteps
      [] op = "analyzeMedia"    -> analyzeMediaSteps
      [] op = "manipulateMedia" -> manipulateMediaSteps

\* the prefix each client operation puts before a caught error's message
FailurePrefix(op) ==
    CASE op = "generateImage"   -> <<"Generation failed: ">>
      [] op = "analyzeMedia"    -> <<"Analysis failed: ">>
      [] op = "manipulateMedia" -> <<"Manipulation failed: ">>

\* mutant: the extension is looked up as written, without toLowerCase
getMimeType_caseSensitive(filePath) ==
    LET ext == extname(filePath)
        mimeTypes == [ jpg  |-> <<"image", "/", "jpeg">>, jpeg |-> <<"image", "/", "jpeg">>,
                       png  |-> <<"image", "/", "png">>,  gif  |-> <<"image", "/", "gif">>,
                       webp |-> <<"image", "/", "webp">>, mp4  |-> <<"video", "/", "mp4">>,
                       mpeg |-> <<"video", "/", "mpeg">>, mov  |-> <<"video", "/", "mov">>,
                       avi  |-> <<"video", "/", "avi">>,  webm |-> <<"video", "/", "webm">>,
                       mp3  |-> <<"audio", "/", "mp3">>,  wav  |-> <<"audio", "/", "wav">>,
                       aac  |-> <<"audio", "/", "aac">> ]
    IN  IF Len(ext) = 2 /\ ext[2] \in DOMAIN mimeTypes
        THEN mimeTypes[ext[2]]
        ELSE <<"application", "/", "octet-stream">>

\* getMimeType: the table is keyed by "." and the extension token
getMimeType(filePath) ==
    LET ext == toLowerCase(extname(filePath))
        mimeTypes == [ jpg  |-> <<"image", "/", "jpeg">>, jpeg |-> <<"image", "/", "jpeg">>,
                       png  |-> <<"image", "/", "png">>,  gif  |-> <<"image", "/", "gif">>,
                       webp |-> <<"image", "/", "webp">>, mp4  |-> <<"video", "/", "mp4">>,
                       mpeg |-> <<"video", "/", "mpeg">>, mov  |-> <<"video", "/", "mov">>,
                       avi  |-> <<"video", "/", "avi">>,  webm |-> <<"video", "/", "webm">>,
                       mp3  |-> <<"audio", "/", "mp3">>,  wav  |-> <<"audio", "/", "wav">>,
                       aac  |-> <<"audio", "/", "aac">> ]
    IN  IF Len(ext) = 2 /\ ext[2] \in DOMAIN mimeTypes
        THEN mimeTypes[ext[2]]
        ELSE <<"application", "/", "octet-stream">>

\* the parameter of each operation that names the file it reads
InputParam(op) == IF op = "analyzeMedia" THEN "filePath" ELSE "inputFile"

----------------------------------------------------------------------------
\* Inputs: the environment, the requests and the outcomes of the external API

\* process.env as the server sees it
Environments ==
    [ GEMINI_API_KEY    : {Undefined, Str(<<"key">>)},
      GEMINI_MODEL      : {Undefined},
      GEMINI_OUTPUT_DIR : {Undefined, Str(<<"/", "tmp", "/", "gemini_mcp_test">>)} ]
    \cup
    { [ GEMINI_API_KEY    |-> Str(<<"key">>),
        GEMINI_MODEL      |-> Str(<<"gemini-2.5-pro">>),
        GEMINI_OUTPUT_DIR |-> Undefined ] }

\* the two GeminiClient sources of the repository
Builds == {"text", "image"}

ExistingInput == <<"/", "tmp", "/", "test-image", ".", "jpg">>

MissingInput == <<"/", "non", "/", "existent", "/", "file", ".", "jpg">>

PromptValues == {Undefined, Str(<<>>), Str(<<"p">>)}

InputFileValues == {Undefined, Str(<<>>), Str(ExistingInput), Str(MissingInput)}

OutputFileValues ==
    { Undefined, Str(<<>>), Num42,
      Str(<<"out">>), Str(<<"out", ".", "png">>), Str(<<".", ".", "/", "evil">>) }

NoArgs == [prompt |-> Undefined, outputFile |-> Undefined,
           filePath |-> Undefined, inputFile |-> Undefined]

\* the arguments objects a caller sends to each tool name
ArgsFor(name) ==
    CASE name = "generate_media" ->
           { [NoArgs EXCEPT !.prompt = p, !.outputFile = o] :
               p \in PromptValues, o \in OutputFileValues }
      [] name = "analyze_media" ->
           { [NoArgs EXCEPT !.filePath = f, !.prompt = p] :
               f \in InputFileValues, p \in PromptValues }
      [] name = "manipulate_media" ->
           { [NoArgs EXCEPT !.inputFile = f, !.prompt = p, !.outputFile = o] :
               f \in InputFileValues, p \in PromptValues, o \in OutputFileValues }
      [] OTHER -> { [NoArgs EXCEPT !.prompt = Str(<<"p">>)] }

ToolNames == SwitchCases \cup {"bogus_tool"}

ImageBytes == <<"IMG">>

\* Buffer.toString('base64') and Buffer.from(s, 'base64')
toBase64(bytes) == IF bytes = <<>> THEN <<>> ELSE <<"b64(">> \o bytes \o <<")">>

fromBase64(s) ==
    IF Len(s) >= 2 /\ s[1] = "b64(" /\ s[Len(s)] = ")"
    THEN SubSeq(s, 2, Len(s) - 1) ELSE <<>>

NoOutcome == [kind |-> "none", text |-> <<>>, mimeType |-> Undefined, data |-> <<>>]

\* what model.generateContent(...) followed by response.text() can do
TextOutcomes ==
    { [NoOutcome EXCEPT !.kind = "throw", !.text = <<"fetch failed">>],
      [NoOutcome EXCEPT !.kind = "text",  !.text = <<>>],
      [NoOutcome EXCEPT !.kind = "text",  !.text = <<"hello">>],
      [NoOutcome EXCEPT !.kind = "text",  !.text = <<"Error: ", "none found">>] }

\* what imageModel.generateContent([prompt]) can answer
ImageOutcomes ==
    { [NoOutcome EXCEPT !.kind = "throw", !.text = <<"fetch failed">>],
      [NoOutcome EXCEPT !.kind = "noCandidates"],
      [NoOutcome EXCEPT !.kind = "noInline", !.text = <<"hello">>],
      [NoOutcome EXCEPT !.kind = "inline", !.mimeType = Str(<<"image", "/", "png">>),
                        !.data = toBase64(ImageBytes)],
      [NoOutcome EXCEPT !.kind = "inline", !.mimeType = Str(<<"image", "/", "jpeg">>),
                        !.data = toBase64(ImageBytes)],
      [NoOutcome EXCEPT !.kind = "inline", !.mimeType = Undefined,
                        !.data = toBase64(<<>>)] }

ApiOutcomes(b, op) ==
    IF b = "image" /\ op = "generateImage" THEN ImageOutcomes ELSE TextOutcomes

----------------------------------------------------------------------------
\* State

VARIABLES
    env,          \* process.env: GEMINI_API_KEY, GEMINI_MODEL, GEMINI_OUTPUT_DIR
    build,        \* which GeminiClient source is built: "text" or "image"
    geminiClient, \* GeminiMcpServer.geminiClient (null until initializeClient succeeds)
    dirs,         \* the directories that exist
    files,        \* the files that exist: path -> content
    calls,        \* per request id: the request and the position of its handler
    responses,    \* per request id: the messages written to stdout for it
    nextId,       \* the id of the next request the caller sends
    stdout,       \* what was written to standard output (as a set of lines)
    stderr        \* what was written to standard error (as a set of lines)

vars == <<env, build, geminiClient, dirs, files, calls, responses, nextId, stdout, stderr>>

Ids == 1..MaxReq

NoClient == [constructed |-> FALSE, apiKey |-> Undefined, model |-> <<>>, outputDir |-> <<>>]

IdleCall ==
    [ st |-> "idle", method |-> "none", name |-> "none", hasArgs |-> FALSE,
      args |-> NoArgs, op |-> "none", pc |-> 0, api |-> NoOutcome,
      outputPath |-> Undefined, content |-> <<>>, apiCalls |-> 0, wrote |-> FALSE,
      handlers |-> <<>>, ok |-> FALSE,
      inlineData |-> [data |-> <<>>, mimeType |-> Undefined] ]

\* a line of text on a stream, and the JSON-RPC response to request id on stdout
Line(text) == [kind |-> "line", id |-> 0, text |-> text]

Message(id) == [kind |-> "message", id |-> id, text |-> <<>>]

\* dotenv.config() of dotenv 17: with no `quiet` option it reports the injected
\* variables through console.log
dotenvConfig == { Line(<<"[dotenv@17] injecting env from .env">>) }

\* the console.error lines of the constructor and of run()
StartupDiagnostics ==
    { Line(<<"Gemini MCP Server initialized - AI-Powered Media Operations for Coding Agents">>),
      Line(<<"Supports: Image analysis, video understanding, content generation for AI development">>),
      Line(<<"Optimized for: Coding agents, programmatic media processing, structured outputs">>),
      Line(<<"Gemini MCP server running on stdio">>) }

\* a JSON-RPC result of tools/call: {content: [{type: 'text', text}]}
TextResult(text) ==
    [ kind |-> "result", content |-> << [type |-> "text", text |-> text] >>,
      message |-> <<>>, tools |-> <<>> ]

\* a JSON-RPC error: what the SDK sends when a request handler throws
TransportError(message) ==
    [ kind |-> "error", content |-> <<>>, message |-> message, tools |-> <<>> ]

\* a JSON-RPC result of tools/list
ListResult(tools) ==
    [ kind |-> "result", content |-> <<>>, message |-> <<>>, tools |-> tools ]

\* the catch block of the tools/call handler: the error becomes a content text
HandlerCatch(message) == TextResult(<<"Error: ">> \o message)

\* GeminiResponse
Success(outputPath, hasData, analysis) ==
    [ success |-> TRUE, message |-> <<"ok">>, outputPath |-> outputPath,
      hasData |-> hasData, analysis |-> analysis ]

Failure(message) ==
    [ success |-> FALSE, message |-> message, outputPath |-> Undefined,
      hasData |-> FALSE, analysis |-> <<>> ]

----------------------------------------------------------------------------
\* GeminiMcpServer.initializeClient and the GeminiClient constructor

\* new GeminiClient(config): throws on a falsy key, defaults the output directory
GeminiClientConstructor(config) ==
    IF ~Truthy(config.apiKey)
    THEN [threw |-> TRUE, message |-> <<"Gemini API key is required">>, client |-> NoClient]
    ELSE [threw |-> FALSE, message |-> <<>>,
          client |-> [constructed |-> TRUE, apiKey |-> config.apiKey,
                      model |-> OrElse(config.model, Str(DefaultModel)).s,
                      outputDir |-> OrElse(config.outputDir, Str(DefaultOutputDir)).s]]

\* mutant: initializeClient constructs the client without testing the key
initializeClient_keyUnchecked(client, e) ==
    IF client.constructed
    THEN [threw |-> FALSE, message |-> <<>>, client |-> client]
    ELSE [threw |-> FALSE, message |-> <<>>,
          client |-> [constructed |-> TRUE, apiKey |-> e.GEMINI_API_KEY,
                      model |-> OrElse(e.GEMINI_MODEL, Str(DefaultModel)).s,
                      outputDir |-> OrElse(e.GEMINI_OUTPUT_DIR, Str(DefaultOutputDir)).s]]

\* mutant: the client is constructed anew from the environment on every call
initializeClient_reconstructs(client, e) ==
    IF ~Truthy(e.GEMINI_API_KEY)
    THEN [threw |-> TRUE,
          message |-> <<"GEMINI_API_KEY environment variable is required">>,
          client |-> client]
    ELSE GeminiClientConstructor(
             [apiKey |-> e.GEMINI_API_KEY,
              model |-> e.GEMINI_MODEL,
              outputDir |-> OrElse(e.GEMINI_OUTPUT_DIR, Str(DefaultOutputDir))])

\* initializeClient(): constructs the client on first use, throws without a key
initializeClient(client, e) ==
    IF client.constructed
    THEN [threw |-> FALSE, message |-> <<>>, client |-> client]
    ELSE IF ~Truthy(e.GEMINI_API_KEY)
    THEN [threw |-> TRUE,
          message |-> <<"GEMINI_API_KEY environment variable is required">>,
          client |-> client]
    ELSE GeminiClientConstructor(
             [apiKey |-> e.GEMINI_API_KEY,
              model |-> e.GEMINI_MODEL,
              outputDir |-> OrElse(e.GEMINI_OUTPUT_DIR, Str(DefaultOutputDir))])

----------------------------------------------------------------------------
\* The tool handlers

\* the first required parameter that is falsy, in the order of the tests; 0 if none
RECURSIVE FirstMissing(_, _, _)
FirstMissing(checks, args, i) ==
    IF i > Len(checks) THEN 0
    ELSE IF ~Truthy(args[checks[i]]) THEN i
    ELSE FirstMissing(checks, args, i + 1)

\* what the handler's destructuring and `if (!x) throw` tests throw; <<>> if nothing
ValidationError(name, hasArgs, args) ==
    LET checks == RequiredChecks(name)
        i      == FirstMissing(checks, args, 1)
    IN  IF ~hasArgs
        THEN <<"Cannot destructure property '", checks[1], "' of 'args' as it is undefined.">>
        ELSE IF i # 0 THEN <<checks[i], " is required">>
        ELSE <<>>

\* the content text a tool handler returns for the client's GeminiResponse
ToolText(name, r) ==
    IF name = "analyze_media"
    THEN IF r.success /\ r.hasData THEN r.analysis ELSE <<"Error: ">> \o r.message
    ELSE IF r.success /\ Truthy(r.outputPath) THEN r.outputPath.s
         ELSE <<"Error: ">> \o r.message

----------------------------------------------------------------------------
\* The GeminiClient operations between the API answer and the file write

\* mutant: the extension is appended without testing outputFile.endsWith
OutputName_alwaysAppend(b, op, outputFile, outcome) ==
    IF b = "image" /\ op = "generateImage"
    THEN LET mimeType  == OrElse(outcome.mimeType, Str(<<"image", "/", "png">>)).s
             pieces    == split(mimeType, "/")
             extension == IF Len(pieces) >= 2 /\ pieces[2] # <<>>
                          THEN pieces[2] ELSE <<"png">>
         IN  outputFile \o <<".">> \o extension
    ELSE outputFile

\* the filename generateImage writes: the "text" source writes outputFile as given,
\* the "image" source appends the extension of the mime type unless already there
OutputName(b, op, outputFile, outcome) ==
    IF b = "image" /\ op = "generateImage"
    THEN LET mimeType  == OrElse(outcome.mimeType, Str(<<"image", "/", "png">>)).s
             pieces    == split(mimeType, "/")
             extension == IF Len(pieces) >= 2 /\ pieces[2] # <<>>
                          THEN pieces[2] ELSE <<"png">>
         IN  IF endsWith(outputFile, <<".">> \o extension)
             THEN outputFile
             ELSE outputFile \o <<".">> \o extension
    ELSE outputFile

\* the bytes written
OutputContent(b, op, outcome) ==
    IF b = "image" /\ op = "generateImage"
    THEN fromBase64(outcome.data) ELSE outcome.text

\* what the operation does with the API's answer, up to issuing fs.writeFile:
\* an early failure return, a thrown error (caught below), or the path and content
AfterApi(b, op, client, args, outcome) ==
    LET none == [early |-> FALSE, threw |-> FALSE, message |-> <<>>,
                 path |-> <<>>, content |-> <<>>]
    IN  IF outcome.kind = "throw"
        THEN [none EXCEPT !.threw = TRUE, !.message = outcome.text]
        ELSE IF outcome.kind = "noCandidates"
        THEN [none EXCEPT !.early = TRUE, !.message = <<"No image generated">>]
        ELSE IF outcome.kind = "noInline"
        THEN [none EXCEPT !.early = TRUE, !.message = <<"No image data found in response">>]
        ELSE IF args.outputFile.t # "string"
        THEN [none EXCEPT !.threw = TRUE,
                !.message = IF b = "image" /\ op = "generateImage"
                            THEN <<"outputFile.endsWith is not a function">>
                            ELSE <<"The \"path\" argument must be of type string. Received type number (42)">>]
        ELSE [none EXCEPT
                !.path = pathJoin(client.outputDir, OutputName(b, op, args.outputFile.s, outcome)),
                !.content = OutputContent(b, op, outcome)]

----------------------------------------------------------------------------
\* Initial state: the server is constructed, no request has been received

InitialDirs == { <<"/">>, <<"/", "tmp">> }

InitialFiles == [p \in {ExistingInput} |-> ImageBytes]

Init ==
    /\ env \in Environments
    /\ build \in Builds
    /\ geminiClient = NoClient
    /\ dirs = InitialDirs
    /\ files = InitialFiles
    /\ calls = [id \in Ids |-> IdleCall]
    /\ responses = [id \in Ids |-> <<>>]
    /\ nextId = 1
    /\ stdout = dotenvConfig
    /\ stderr = StartupDiagnostics

----------------------------------------------------------------------------
\* Steps of the handlers

\* mutant: the response is written under the identifier of another request
Answer_underOtherId(id, c, resp) ==
    /\ calls' = [calls EXCEPT ![id] = [c EXCEPT !.st = "answered"]]
    /\ responses' = [responses EXCEPT ![IF id = MaxReq THEN 1 ELSE id + 1] = Append(@, resp)]
    /\ stdout' = stdout \cup {Message(IF id = MaxReq THEN 1 ELSE id + 1)}

\* the response is written to stdout and the handler is over
Answer(id, c, resp) ==
    /\ calls' = [calls EXCEPT ![id] = [c EXCEPT !.st = "answered"]]
    /\ responses' = [responses EXCEPT ![id] = Append(@, resp)]
    /\ stdout' = stdout \cup {Message(id)}

\* the client operation returned r: the tool handler maps it to the result
Return(id, c, r) == Answer(id, [c EXCEPT !.ok = r.success], TextResult(ToolText(c.name, r)))

\* mutant: the rejection is swallowed and the operation never returns
Catch_neverReturns(id, c, message) == UNCHANGED <<calls, responses, stdout>>

\* mutant: the operation has no catch block, the error reaches the tool handler
Catch_rethrows(id, c, message) == Answer(id, c, HandlerCatch(message))

\* the client operation's catch block
Catch(id, c, message) == Return(id, c, Failure(FailurePrefix(c.op) \o message))

\* the handler is suspended at its next await
Suspend(id, c) ==
    /\ calls' = [calls EXCEPT ![id] = c]
    /\ UNCHANGED <<responses, stdout>>

\* the awaited operation completed: the operation goes on to its next await, or
\* returns success when there is none
Continue(id, c) ==
    IF c.pc < Len(Steps(c.op))
    THEN Suspend(id, [c EXCEPT !.pc = c.pc + 1])
    ELSE Return(id, c, Success(c.outputPath, c.op = "analyzeMedia", c.api.text))

Awaiting(id, step) ==
    /\ calls[id].st = "pending"
    /\ Steps(calls[id].op)[calls[id].pc] = step

\* the ListToolsRequestSchema handler
ListTools(id) ==
    /\ id = nextId
    /\ nextId' = nextId + 1
    /\ Answer(id, [IdleCall EXCEPT !.method = "tools/list"],
              ListResult([i \in 1..Len(ToolCatalog) |-> ToolCatalog[i].name]))
    /\ UNCHANGED <<env, build, geminiClient, dirs, files, stderr>>

\* mutant: the tool name is looked up before initializeClient() is called
CallTool_lookupFirst(id, name, hasArgs, args) ==
    /\ id = nextId
    /\ nextId' = nextId + 1
    /\ LET c    == [IdleCall EXCEPT !.method = "tools/call", !.name = name,
                                    !.hasArgs = hasArgs, !.args = args]
           init == initializeClient(geminiClient, env)
           err  == ValidationError(name, hasArgs, args)
       IN  IF Dispatch(name) = <<>>
           THEN /\ Answer(id, c, HandlerCatch(<<"Unknown tool: ", name>>))
                /\ UNCHANGED geminiClient
           ELSE IF init.threw
           THEN /\ Answer(id, c, TransportError(init.message))
                /\ UNCHANGED geminiClient
           ELSE /\ geminiClient' = init.client
                /\ LET h == [c EXCEPT !.handlers = Dispatch(name)]
                   IN  IF err # <<>>
                       THEN Answer(id, h, HandlerCatch(err))
                       ELSE Suspend(id, [h EXCEPT !.st = "pending",
                                                  !.op = ClientOp(name), !.pc = 1])
    /\ UNCHANGED <<env, build, dirs, files, stderr>>

\* the CallToolRequestSchema handler, up to the first await of the client operation
CallTool(id, name, hasArgs, args) ==
    /\ id = nextId
    /\ nextId' = nextId + 1
    /\ LET c    == [IdleCall EXCEPT !.method = "tools/call", !.name = name,
                                    !.hasArgs = hasArgs, !.args = args]
           init == initializeClient(geminiClient, env)
           err  == ValidationError(name, hasArgs, args)
       IN  IF init.threw
           THEN /\ Answer(id, c, TransportError(init.message))
                /\ UNCHANGED geminiClient
           ELSE /\ geminiClient' = init.client
                /\ IF Dispatch(name) = <<>>
                   THEN Answer(id, c, HandlerCatch(<<"Unknown tool: ", name>>))
                   ELSE LET h == [c EXCEPT !.handlers = Dispatch(name)]
                        IN  IF err # <<>>
                            THEN Answer(id, h, HandlerCatch(err))
                            ELSE Suspend(id, [h EXCEPT !.st = "pending",
                                                       !.op = ClientOp(name), !.pc = 1])
    /\ UNCHANGED <<env, build, dirs, files, stderr>>

\* mutant: ensureOutputDir does not catch the error of fs.mkdir
MkdirDone_fatal(id) ==
    /\ Awaiting(id, "mkdir")
    /\ \E ok \in BOOLEAN :
         IF ok \/ geminiClient.outputDir \in dirs
         THEN /\ dirs' = dirs \cup ancestors(geminiClient.outputDir)
              /\ Continue(id, calls[id])
         ELSE /\ UNCHANGED dirs
              /\ Catch(id, calls[id], <<"EACCES: permission denied, mkdir">>)
    /\ UNCHANGED <<env, build, geminiClient, files, nextId, stderr>>

\* ensureOutputDir: fs.mkdir(outputDir, {recursive: true}) completed; a failure is
\* logged and the operation goes on
MkdirDone(id) ==
    /\ Awaiting(id, "mkdir")
    /\ \E ok \in BOOLEAN :
         IF ok \/ geminiClient.outputDir \in dirs
         THEN /\ dirs' = dirs \cup ancestors(geminiClient.outputDir)
              /\ UNCHANGED stderr
         ELSE /\ UNCHANGED dirs
              /\ stderr' = stderr \cup {Line(<<"Failed to create output directory:">>)}
    /\ Continue(id, calls[id])
    /\ UNCHANGED <<env, build, geminiClient, files, nextId>>

\* fs.readFile(path) completed
ReadDone(id) ==
    /\ Awaiting(id, "read")
    /\ LET c == calls[id]
           f == c.args[InputParam(c.op)]
       IN  IF f.t = "string" /\ f.s \in DOMAIN files
           THEN \E inlineData \in {[data |-> toBase64(files[f.s]),
                                     mimeType |-> Str(getMimeType(f.s))]} :
                    Continue(id, [c EXCEPT !.inlineData = inlineData])
           ELSE Catch(id, c, <<"ENOENT: no such file or directory, open '">> \o f.s \o <<"'">>)
    /\ UNCHANGED <<env, build, geminiClient, dirs, files, nextId, stderr>>

\* generateContent(...) completed with one of the API's outcomes
\* (c and a are bound to their values, evaluated once per outcome)
ApiDone(id) ==
    /\ Awaiting(id, "api")
    /\ \E outcome \in ApiOutcomes(build, calls[id].op) :
         \E c \in {[calls[id] EXCEPT !.api = outcome, !.apiCalls = @ + 1]} :
         \E a \in {AfterApi(build, c.op, geminiClient, c.args, outcome)} :
             IF outcome.kind = "throw"
             THEN Catch(id, c, outcome.text)
             ELSE IF c.op = "analyzeMedia"
             THEN Continue(id, c)
             ELSE IF a.early THEN Return(id, c, Failure(a.message))
             ELSE IF a.threw THEN Catch(id, c, a.message)
             ELSE Continue(id, [c EXCEPT !.outputPath = Str(a.path), !.content = a.content])
    /\ UNCHANGED <<env, build, geminiClient, dirs, files, nextId, stderr>>

\* mutant: fs.writeFile is given the flag 'wx' and fails when the file exists
WriteDone_exclusive(id) ==
    /\ Awaiting(id, "write")
    /\ LET c == calls[id]
           p == c.outputPath.s
       IN  IF dirname(p) \in dirs /\ p \notin dirs /\ p \notin DOMAIN files
           THEN /\ files' = [q \in DOMAIN files \cup {p} |->
                               IF q = p THEN c.content ELSE files[q]]
                /\ Continue(id, [c EXCEPT !.wrote = TRUE])
           ELSE /\ UNCHANGED files
                /\ Catch(id, c, <<"EEXIST: file already exists, open '">> \o p \o <<"'">>)
    /\ UNCHANGED <<env, build, geminiClient, dirs, nextId, stderr>>

\* mutant: an error is thrown after the file has been written
WriteDone_throwsAfterWrite(id) ==
    /\ Awaiting(id, "write")
    /\ LET c == calls[id]
           p == c.outputPath.s
       IN  IF dirname(p) \in dirs /\ p \notin dirs
           THEN /\ files' = [q \in DOMAIN files \cup {p} |->
                               IF q = p THEN c.content ELSE files[q]]
                /\ Catch(id, [c EXCEPT !.wrote = TRUE], <<"write after end">>)
           ELSE /\ UNCHANGED files
                /\ Catch(id, c, <<"ENOENT: no such file or directory, open '">> \o p \o <<"'">>)
    /\ UNCHANGED <<env, build, geminiClient, dirs, nextId, stderr>>

\* fs.writeFile(outputPath, data) completed
WriteDone(id) ==
    /\ Awaiting(id, "write")
    /\ LET c == calls[id]
           p == c.outputPath.s
       IN  IF dirname(p) \in dirs /\ p \notin dirs
           THEN /\ files' = [q \in DOMAIN files \cup {p} |->
                               IF q = p THEN c.content ELSE files[q]]
                /\ Continue(id, [c EXCEPT !.wrote = TRUE])
           ELSE /\ UNCHANGED files
                /\ Catch(id, c, <<"ENOENT: no such file or directory, open '">> \o p \o <<"'">>)
    /\ UNCHANGED <<env, build, geminiClient, dirs, nextId, stderr>>

Next ==
    \/ \E id \in Ids : ListTools(id)
    \/ \E id \in Ids, name \in ToolNames :
         \E hasArgs \in BOOLEAN :
           \E args \in (IF hasArgs THEN ArgsFor(name) ELSE {NoArgs}) :
             CallTool(id, name, hasArgs, args)
    \/ \E id \in Ids : MkdirDone(id)
    \/ \E id \in Ids : ReadDone(id)
    \/ \E id \in Ids : ApiDone(id)
    \/ \E id \in Ids : WriteDone(id)

Spec == Init /\ [][Next]_vars

\* every awaited filesystem operation and API call eventually completes or fails
\* the requests of the liveness specification: each parameter absent or one value
\* that passes validation, the input file readable or not, the output file inside
\* or outside the output directory
FairArgsFor(name) ==
    { a \in ArgsFor(name) :
        /\ a.prompt \in {Undefined, Str(<<"p">>)}
        /\ a.filePath \in {Undefined, Str(ExistingInput), Str(MissingInput)}
        /\ a.inputFile \in {Undefined, Str(ExistingInput), Str(MissingInput)}
        /\ a.outputFile \in {Undefined, Str(<<"out">>), Str(<<".", ".", "/", "evil">>)} }

FairNext ==
    \/ \E id \in Ids : ListTools(id)
    \/ \E id \in Ids, name \in ToolNames :
         \E hasArgs \in BOOLEAN :
           \E args \in (IF hasArgs THEN FairArgsFor(name) ELSE {NoArgs}) :
             CallTool(id, name, hasArgs, args)
    \/ \E id \in Ids : MkdirDone(id)
    \/ \E id \in Ids : ReadDone(id)
    \/ \E id \in Ids : ApiDone(id)
    \/ \E id \in Ids : WriteDone(id)

\* an awaited filesystem operation or API call eventually completes or fails
Complete == \E id \in Ids : MkdirDone(id) \/ ReadDone(id) \/ ApiDone(id) \/ WriteDone(id)

Fairness == WF_vars(Complete)

FairSpec == Init /\ [][FairNext]_vars /\ Fairness

----------------------------------------------------------------------------
\* The MIME inference of analyze_media and manipulate_media, on files of every
\* extension of the table and of other shapes

MimeExtensions ==
    { "jpg", "jpeg", "png", "gif", "webp", "mp4", "mpeg", "mov", "avi", "webm",
      "mp3", "wav", "aac", "xyz", "JPG", "PNG" }

\* /tmp/media.<ext>, and names with no extension, a leading dot, a trailing dot,
\* two dots and a dot in the directory only
MimePaths ==
    { <<"/", "tmp", "/", "media", ".", e>> : e \in MimeExtensions }
    \cup { <<"/", "tmp", "/", "media">>,
           <<"/", "tmp", "/", ".", "png">>,
           <<"/", "tmp", "/", "media", ".">>,
           <<"/", "tmp", "/", "media", ".", "tar", ".", "png">>,
           <<"/", "tmp", "/", "a", ".", "png", "/", "media">> }

MimeInit ==
    /\ env \in {e \in Environments : /\ Truthy(e.GEMINI_API_KEY)
                                    /\ e.GEMINI_MODEL = Undefined
                                    /\ e.GEMINI_OUTPUT_DIR = Undefined}
    /\ build \in Builds
    /\ geminiClient = NoClient
    /\ dirs = InitialDirs \cup {<<"/", "tmp", "/", "a", ".", "png">>}
    /\ files = [p \in MimePaths |-> ImageBytes]
    /\ calls = [id \in Ids |-> IdleCall]
    /\ responses = [id \in Ids |-> <<>>]
    /\ nextId = 1
    /\ stdout = dotenvConfig
    /\ stderr = StartupDiagnostics

\* a tools/call of analyze_media or manipulate_media on one of the files
MimeCall(id) ==
    \E f \in MimePaths :
        \/ CallTool(id, "analyze_media", TRUE,
                    [NoArgs EXCEPT !.filePath = Str(f), !.prompt = Str(<<"p">>)])
        \/ CallTool(id, "manipulate_media", TRUE,
                    [NoArgs EXCEPT !.inputFile = Str(f), !.prompt = Str(<<"p">>),
                                   !.outputFile = Str(<<"out">>)])

MimeNext ==
    \/ \E id \in Ids : MimeCall(id)
    \/ \E id \in Ids : MkdirDone(id)
    \/ \E id \in Ids : ReadDone(id)
    \/ \E id \in Ids : ApiDone(id)
    \/ \E id \in Ids : WriteDone(id)

MimeSpec == MimeInit /\ [][MimeNext]_vars

----------------------------------------------------------------------------
\* Vocabulary of the properties

RegisteredNames == {ToolCatalog[i].name : i \in 1..Len(ToolCatalog)}

WritingTools == {"generate_media", "manipulate_media"}

\* the `required` list of the tool's advertised inputSchema
RequiredOf(name) ==
    LET i == CHOOSE k \in 1..Len(ToolCatalog) : ToolCatalog[k].name = name
    IN  {ToolCatalog[i].required[j] : j \in 1..Len(ToolCatalog[i].required)}

\* a parameter is omitted, or supplied as an empty string
Omitted(v) == v = Undefined \/ v = Str(<<>>)

IsToolCall(id) == calls[id].method = "tools/call"

Answered(id) == calls[id].st = "answered" /\ Len(responses[id]) >= 1

ErrorPrefix == <<"Error: ">>

\* the response is a normal result of one text block
IsTextResult(r) ==
    /\ r.kind = "result"
    /\ Len(r.content) = 1
    /\ r.content[1].type = "text"

\* a result that carries a path: a text result of a writing tool that is no error text
ReturnsPath(name, r) ==
    /\ name \in WritingTools
    /\ IsTextResult(r)
    /\ ~startsWith(r.content[1].text, ErrorPrefix)

----------------------------------------------------------------------------
\* C1: a tools/call to a registered tool that omits a required parameter (or gives
\* it as an empty string) is answered, in every server state, with a normal result
\* whose text is `Error: <name> is required` for an omitted required parameter,
\* never with a transport-level error.
C1_MissingParamIsErrorText ==
    \A id \in Ids :
        ( /\ Answered(id) /\ IsToolCall(id)
          /\ calls[id].name \in RegisteredNames
          /\ calls[id].hasArgs
          /\ \E p \in RequiredOf(calls[id].name) : Omitted(calls[id].args[p]) )
        => /\ IsTextResult(responses[id][1])
           /\ \E p \in RequiredOf(calls[id].name) :
                /\ Omitted(calls[id].args[p])
                /\ responses[id][1].content[1].text = ErrorPrefix \o <<p, " is required">>

\* C2: a tools/call with an unregistered name is answered with a transport-level
\* error, not with a normal result carrying an `Error:` content text.
C2_UnknownToolIsTransportError ==
    \A id \in Ids :
        (Answered(id) /\ IsToolCall(id) /\ calls[id].name \notin RegisteredNames)
        => responses[id][1].kind = "error"

\* C3: every tools/call to a registered tool is answered with a normal result of
\* exactly one text block, whatever fault occurred (configuration included).
C3_RegisteredCallGetsEnvelope ==
    \A id \in Ids :
        (Answered(id) /\ IsToolCall(id) /\ calls[id].name \in RegisteredNames)
        => /\ Len(responses[id]) = 1
           /\ IsTextResult(responses[id][1])

\* C4: a path is returned only after that invocation's write completed: whenever a
\* response carries a path, the call is over, its fs.writeFile completed and the
\* file exists at the path.
C4_WriteBeforePath ==
    \A id \in Ids :
        \A i \in 1..Len(responses[id]) :
            ReturnsPath(calls[id].name, responses[id][i])
            => /\ calls[id].st = "answered"
               /\ calls[id].wrote
               /\ responses[id][i].content[1].text \in DOMAIN files

\* a writing tool returned a path
C4_Witness ==
    \E id \in Ids :
        /\ Answered(id)
        /\ ReturnsPath(calls[id].name, responses[id][1])
        /\ calls[id].wrote

\* C5: every file generate_media or manipulate_media writes lies inside the
\* configured output directory, whatever outputFile is.
C5_WritesStayInOutputDir ==
    \A p \in (DOMAIN files) \ (DOMAIN InitialFiles) :
        startsWith(p, geminiClient.outputDir \o <<"/">>)

\* C6: when generate_media or manipulate_media succeeds, the content text is the
\* path the invocation wrote, and right after the response the file at that path
\* exists and is not empty.
C6_SuccessPathReadsNonEmpty ==
    [][ \A id \in Ids :
          ( /\ responses[id] = <<>> /\ responses'[id] # <<>>
            /\ ReturnsPath(calls'[id].name, responses'[id][1]) )
          => LET text == responses'[id][1].content[1].text
             IN  /\ calls'[id].outputPath = Str(text)
                 /\ text \in DOMAIN files'
                 /\ files'[text] # <<>> ]_vars

\* C7: analyze_media called (with a prompt) on a filePath that cannot be read is
\* answered with a normal result whose text starts with `Error: Analysis failed: `.
C7_UnreadableFileIsAnalysisFailed ==
    \A id \in Ids :
        ( /\ Answered(id) /\ IsToolCall(id)
          /\ calls[id].name = "analyze_media"
          /\ calls[id].hasArgs
          /\ Truthy(calls[id].args.prompt)
          /\ calls[id].args.filePath.t = "string"
          /\ calls[id].args.filePath.s # <<>>
          /\ calls[id].args.filePath.s \notin DOMAIN files )
        => /\ IsTextResult(responses[id][1])
           /\ startsWith(responses[id][1].content[1].text,
                         ErrorPrefix \o <<"Analysis failed: ">>)

\* C8: no step of an analyze_media invocation creates a directory or creates or
\* modifies a file, whatever its outcome.
C8_AnalyzeLeavesFilesystem ==
    [][ \A id \in Ids :
          (calls'[id] # calls[id] /\ calls'[id].name = "analyze_media")
          => UNCHANGED <<dirs, files>> ]_vars

\* analyze_media ran to its API call and was answered, the output directory absent
C8_Witness ==
    \E id \in Ids :
        /\ Answered(id)
        /\ calls[id].name = "analyze_media"
        /\ calls[id].apiCalls = 1
        /\ geminiClient.outputDir \notin dirs

\* C9: tools/list answers, in any state, the same ordered list of the three tools
\* generate_media, analyze_media, manipulate_media, and changes no server state.
C9_ListToolsIdempotent ==
    [][ \A id \in Ids :
          (calls[id].st = "idle" /\ calls'[id].method = "tools/list")
          => /\ responses'[id] =
                  << ListResult(<<"generate_media", "analyze_media", "manipulate_media">>) >>
             /\ UNCHANGED <<env, build, geminiClient, dirs, files>>
             /\ \A j \in Ids \ {id} :
                  calls'[j] = calls[j] /\ responses'[j] = responses[j] ]_vars

\* tools/list was answered after a tools/call constructed the client
C9_Witness ==
    \E id, j \in Ids :
        /\ j < id
        /\ Answered(id) /\ calls[id].method = "tools/list"
        /\ IsToolCall(j)
        /\ geminiClient.constructed

\* C10: no Generation Client operation is entered with an argument that violates
\* the tool's inputSchema, which declares every parameter a string.
C10_ClientSeesOnlyStrings ==
    \A id \in Ids :
        calls[id].op # "none"
        => \A p \in {"prompt", "outputFile", "filePath", "inputFile"} :
               calls[id].args[p].t \in {"string", "undefined"}

\* C11: each tools/call invokes at most one tool handler, and only the handler the
\* switch has under exactly the requested name; a call with an unregistered name
\* reaches no handler and no Generation Client operation.
C11_OneHandlerOfRequestedName ==
    \A id \in Ids :
        IsToolCall(id)
        => /\ Len(calls[id].handlers) <= 1
           /\ calls[id].handlers # <<>>
                => /\ calls[id].name \in RegisteredNames
                   /\ calls[id].handlers[1] = ToolHandler(calls[id].name)
           /\ calls[id].op # "none"
                => /\ calls[id].handlers # <<>>
                   /\ calls[id].op = ClientOp(calls[id].name)
           /\ calls[id].name \notin RegisteredNames
                => /\ calls[id].handlers = <<>>
                   /\ calls[id].op = "none"
                   /\ calls[id].apiCalls = 0
                   /\ ~calls[id].wrote

\* with the client constructed, an unregistered name was refused and a registered
\* name reached its handler and its client operation
C11_Witness ==
    \E id, j \in Ids :
        /\ geminiClient.constructed
        /\ Answered(id) /\ IsToolCall(id)
        /\ calls[id].name \notin RegisteredNames
        /\ calls[id].handlers = <<>>
        /\ IsToolCall(j)
        /\ calls[j].name \in RegisteredNames
        /\ calls[j].handlers = <<ToolHandler(calls[j].name)>>
        /\ calls[j].op # "none"

\* C12: each tools/call receives exactly one response: never more than one, none
\* while its handler is still running (no partial result), and, the awaited API call
\* and filesystem operations completing, eventually one.
C12_ExactlyOneResponse ==
    /\ [](\A id \in Ids :
            /\ Len(responses[id]) <= 1
            /\ calls[id].st # "answered" => responses[id] = <<>>)
    /\ \A id \in Ids :
            IsToolCall(id) ~> (calls[id].st = "answered" /\ Len(responses[id]) = 1)

\* a tools/call that awaited the API has its one response
C12_Witness ==
    \E id \in Ids :
        /\ IsToolCall(id)
        /\ calls[id].apiCalls = 1
        /\ calls[id].st = "answered"
        /\ Len(responses[id]) = 1

\* the text of the `Error: ... failed: ENOENT` answer for a path
ReadErrorText(op, path) ==
    ErrorPrefix \o FailurePrefix(op)
        \o <<"ENOENT: no such file or directory, open '">> \o path \o <<"'">>

\* C13: with several tools/call outstanding, every response is delivered under the
\* identifier of a finished tools/call and is the result of that request's own name
\* and arguments: the validation error names its own missing parameter, the
\* unknown-tool error its own name, the read error its own input file, the path is
\* built from its own outputFile and the analysis is its own API answer.
C13_ResponseOfOwnRequest ==
    \A id \in Ids :
        \A i \in 1..Len(responses[id]) :
            LET c == calls[id]
                r == responses[id][i]
            IN  /\ c.st = "answered"
                /\ c.method = "tools/call"
                => /\ r.kind = "error" => ~Truthy(env.GEMINI_API_KEY)
                   /\ (IsTextResult(r) /\ c.name \notin RegisteredNames)
                        => r.content[1].text = ErrorPrefix \o <<"Unknown tool: ", c.name>>
                   /\ (IsTextResult(r) /\ c.name \in RegisteredNames /\ c.op = "none")
                        => \/ ~c.hasArgs
                           \/ \E p \in RequiredOf(c.name) :
                                /\ ~Truthy(c.args[p])
                                /\ r.content[1].text = ErrorPrefix \o <<p, " is required">>
                   /\ ReturnsPath(c.name, r)
                        => /\ c.args.outputFile.t = "string"
                           /\ r.content[1].text =
                                pathJoin(geminiClient.outputDir,
                                         OutputName(build, c.op, c.args.outputFile.s, c.api))
                   /\ (IsTextResult(r) /\ c.op = "analyzeMedia" /\ c.apiCalls = 1
                          /\ c.api.kind = "text")
                        => r.content[1].text = c.api.text
                   /\ (IsTextResult(r) /\ c.op \in {"analyzeMedia", "manipulateMedia"}
                          /\ c.apiCalls = 0)
                        => r.content[1].text = ReadErrorText(c.op, c.args[InputParam(c.op)].s)

\* the second request was answered with its path while the first, sent with other
\* arguments, is still awaiting
C13_Witness ==
    \E id, j \in Ids :
        /\ id < j
        /\ calls[id].st = "pending"
        /\ calls[id].name \in WritingTools
        /\ calls[id].args # calls[j].args
        /\ Answered(j)
        /\ ReturnsPath(calls[j].name, responses[j][1])

\* C14: tool invocations are handled strictly one at a time: while one tools/call is
\* awaiting its handler chain no other tools/call's handler has started.
C14_OneInvocationAtATime ==
    \A id, j \in Ids :
        (calls[id].st = "pending" /\ calls[j].st = "pending") => id = j

\* C15: output-file writes are unguarded, the last write wins: a write to a writable
\* path succeeds whether or not the file exists or another invocation targets it,
\* leaves the writer's content in the file and the writer is answered with the path.
C15_LastWriteWins ==
    [][ \A id \in Ids :
          LET p == calls[id].outputPath.s
          IN  ( /\ Awaiting(id, "write")
                /\ calls'[id] # calls[id]
                /\ dirname(p) \in dirs /\ p \notin dirs )
              => /\ files' = [q \in DOMAIN files \cup {p} |->
                                IF q = p THEN calls[id].content ELSE files[q]]
                 /\ calls'[id].wrote
                 /\ ReturnsPath(calls'[id].name, responses'[id][1])
                 /\ responses'[id][1].content[1].text = p ]_vars

\* two overlapping invocations both returned the same path, and the file holds the
\* content of the first request, whose write completed last, not the second's
C15_Witness ==
    /\ Answered(1) /\ Answered(2)
    /\ calls[1].wrote /\ calls[2].wrote
    /\ calls[1].outputPath = calls[2].outputPath
    /\ ReturnsPath(calls[1].name, responses[1][1])
    /\ ReturnsPath(calls[2].name, responses[2][1])
    /\ responses[1][1] = responses[2][1]
    /\ files[calls[1].outputPath.s] = calls[1].content
    /\ calls[1].content # calls[2].content

\* C16: while the API credential is absent no tools/call reaches a handler, a client
\* operation, an API call or a filesystem write; the refused attempts leave the
\* server as it started (client unconstructed, filesystem untouched), so that
\* initializeClient succeeds on that state once it finds the credential.
C16_NoWorkWithoutCredential ==
    ~Truthy(env.GEMINI_API_KEY)
    => /\ geminiClient = NoClient
       /\ dirs = InitialDirs
       /\ files = InitialFiles
       /\ \A id \in Ids :
             IsToolCall(id)
             => /\ calls[id].st = "answered"
                /\ calls[id].handlers = <<>>
                /\ calls[id].op = "none"
                /\ calls[id].apiCalls = 0
                /\ ~calls[id].wrote
       /\ \A e \in Environments :
             Truthy(e.GEMINI_API_KEY)
             => LET r == initializeClient(geminiClient, e)
                IN  ~r.threw /\ r.client.constructed /\ r.client.apiKey = e.GEMINI_API_KEY

\* without the credential, a complete generate_media call was refused
C16_Witness ==
    /\ ~Truthy(env.GEMINI_API_KEY)
    /\ \E id \in Ids :
          /\ Answered(id) /\ IsToolCall(id)
          /\ calls[id].name = "generate_media"
          /\ calls[id].hasArgs
          /\ \A p \in RequiredOf("generate_media") : Truthy(calls[id].args[p])
          /\ responses[id][1].kind = "error"

\* C17: a tools/call causes at most one request to the external API, and none when
\* a required parameter fails validation or when the input file of analyze_media or
\* manipulate_media cannot be read.
C17_AtMostOneApiCall ==
    \A id \in Ids :
        LET c == calls[id]
        IN  /\ c.apiCalls <= 1
            /\ ( /\ c.method = "tools/call" /\ c.name \in RegisteredNames
                  /\ \/ ~c.hasArgs
                     \/ \E p \in RequiredOf(c.name) : ~Truthy(c.args[p]) )
                => c.apiCalls = 0
            /\ ( /\ c.method = "tools/call"
                  /\ c.name \in {"analyze_media", "manipulate_media"}
                  /\ c.args[InputParam(ClientOp(c.name))].s \notin DOMAIN files )
                => c.apiCalls = 0

\* a call on an unreadable file ended without an API request, another call made one
C17_Witness ==
    \E id, j \in Ids :
        /\ Answered(id)
        /\ calls[id].op \in {"analyzeMedia", "manipulateMedia"}
        /\ calls[id].args[InputParam(calls[id].op)].s \notin DOMAIN files
        /\ calls[id].apiCalls = 0
        /\ Answered(j)
        /\ calls[j].apiCalls = 1

\* C18: in every reachable state standard output carries only protocol response
\* messages, and every diagnostic or log line (startup banners, 'running on stdio',
\* directory-creation failures, environment loading) is on standard error.
C18_StdoutOnlyProtocol ==
    /\ \A l \in stdout : l.kind = "message"
    /\ \A l \in stderr : l.kind = "line"
    /\ StartupDiagnostics \subseteq stderr

\* C19: for every answered tools/call to a registered tool, the content text begins
\* with `Error:` if and only if the invocation failed; a successful result (a path,
\* or the analysis text) never begins with `Error:`.
C19_ErrorPrefixIffFailed ==
    \A id \in Ids :
        (Answered(id) /\ IsToolCall(id) /\ calls[id].name \in RegisteredNames)
        => /\ IsTextResult(responses[id][1])
           /\ startsWith(responses[id][1].content[1].text, ErrorPrefix) <=> ~calls[id].ok

\* the table of the MIME inference, by extension without its dot
MimeTable ==
    [ jpg  |-> <<"image", "/", "jpeg">>, jpeg |-> <<"image", "/", "jpeg">>,
      png  |-> <<"image", "/", "png">>,  gif  |-> <<"image", "/", "gif">>,
      webp |-> <<"image", "/", "webp">>, mp4  |-> <<"video", "/", "mp4">>,
      mpeg |-> <<"video", "/", "mpeg">>, mov  |-> <<"video", "/", "mov">>,
      avi  |-> <<"video", "/", "avi">>,  webm |-> <<"video", "/", "webm">>,
      mp3  |-> <<"audio", "/", "mp3">>,  wav  |-> <<"audio", "/", "wav">>,
      aac  |-> <<"audio", "/", "aac">> ]

\* the type the table gives an extension (<<>>, or "." and what follows it)
TypeOfExtension(ext) ==
    IF Len(ext) = 2 /\ ext[1] = "." /\ ext[2] \in DOMAIN MimeTable
    THEN MimeTable[ext[2]]
    ELSE <<"application", "/", "octet-stream">>

\* the outbound request of an analyze_media or manipulate_media call was built
RequestBuilt(id) ==
    /\ calls[id].op \in {"analyzeMedia", "manipulateMedia"}
    /\ \/ calls[id].apiCalls = 1
       \/ calls[id].st = "pending" /\ Steps(calls[id].op)[calls[id].pc] = "api"

\* C20 as stated: the request carries the type the table lists for the file's
\* extension as written, and application/octet-stream for every other extension
\* or none.
C20_MimeOfExtensionAsWritten ==
    \A id \in Ids :
        RequestBuilt(id)
        => calls[id].inlineData.mimeType =
             Str(TypeOfExtension(extname(calls[id].args[InputParam(calls[id].op)].s)))

\* C20 amended: the extension is compared without regard to letter case: the request
\* carries the type the table lists for the lower-cased extension of the file, and
\* application/octet-stream when the lower-cased extension is not in the table or
\* there is none.
C20_MimeOfLowerCasedExtension ==
    \A id \in Ids :
        RequestBuilt(id)
        => calls[id].inlineData.mimeType =
             Str(TypeOfExtension(
                   toLowerCase(extname(calls[id].args[InputParam(calls[id].op)].s))))

\* requests went out for a .JPG file as image/jpeg and for a .xyz file as
\* application/octet-stream
C20_Witness ==
    \E id, j \in Ids :
        /\ calls[id].apiCalls = 1
        /\ calls[id].args[InputParam(calls[id].op)].s = <<"/", "tmp", "/", "media", ".", "JPG">>
        /\ calls[id].inlineData.mimeType = Str(<<"image", "/", "jpeg">>)
        /\ calls[j].apiCalls = 1
        /\ calls[j].args[InputParam(calls[j].op)].s = <<"/", "tmp", "/", "media", ".", "xyz">>
        /\ calls[j].inlineData.mimeType = Str(<<"application", "/", "octet-stream">>)

\* the X of the image/X type of a binary image response (image/png when the
\* response names no type)
ImageSubtype(outcome) ==
    IF outcome.mimeType = Undefined THEN "png" ELSE outcome.mimeType.s[3]

\* generate_media got a binary image response and returned a path
ImagePathReturned(id) ==
    /\ Answered(id)
    /\ calls[id].name = "generate_media"
    /\ calls[id].api.kind = "inline"
    /\ ReturnsPath(calls[id].name, responses[id][1])

C22_PlainTextIsWritten ==
    [][ \A id \in Ids :
          ( /\ responses[id] = <<>> /\ responses'[id] # <<>>
            /\ calls'[id].name = "generate_media"
            /\ calls'[id].args.outputFile.t = "string"
            /\ calls'[id].apiCalls = 1
            /\ calls'[id].api.kind \in {"text", "noInline"} )
          => LET path == pathJoin(geminiClient.outputDir, calls'[id].args.outputFile.s)
             IN  /\ IsTextResult(responses'[id][1])
                 /\ responses'[id][1].content[1].text = path
                 /\ path \in DOMAIN files'
                 /\ files'[path] = calls'[id].api.text ]_vars

\* C23: outputFile is optional for generate_media and manipulate_media: a call that
\* supplies prompt (and inputFile for manipulate_media) but no outputFile is not
\* answered `Error: outputFile is required`.
C23_OutputFileOptional ==
    \A id \in Ids :
        ( /\ Answered(id) /\ IsToolCall(id)
          /\ calls[id].name \in WritingTools
          /\ calls[id].hasArgs
          /\ Truthy(calls[id].args.prompt)
          /\ calls[id].name = "manipulate_media" => Truthy(calls[id].args.inputFile)
          /\ calls[id].args.outputFile = Undefined
          /\ IsTextResult(responses[id][1]) )
        => responses[id][1].content[1].text # ErrorPrefix \o <<"outputFile", " is required">>

\* a tools/call that ran initializeClient() with the client already constructed
LaterCall(id) ==
    /\ Answered(id) /\ IsToolCall(id)
    /\ \E j \in Ids : j < id /\ IsToolCall(j)

\* C24: the Generation Client is constructed at most once: once it is constructed
\* no step replaces it or changes its API key, model or output directory, and
\* initializeClient() returns that same client whatever the environment
\* variables hold by then.
C24_ClientConstructedOnce ==
    /\ [](geminiClient.constructed
            => \A e \in Environments :
                   LET r == initializeClient(geminiClient, e)
                   IN  ~r.threw /\ r.client = geminiClient)
    /\ [][geminiClient.constructed => geminiClient' = geminiClient]_vars

\* two tool calls were answered by the client the first of them constructed, and
\* the process environment is not the only one under which it was tested
C24_Witness ==
    /\ geminiClient.constructed
    /\ geminiClient.model = <<"gemini-2.5-pro">>
    /\ \E id \in Ids : LaterCall(id) /\ calls[id].apiCalls = 1
    /\ \E e \in Environments :
           /\ Truthy(e.GEMINI_API_KEY)
           /\ e.GEMINI_MODEL # env.GEMINI_MODEL

\* a tools/call whose client operation ran to its end
OperationEnded(id) ==
    /\ Answered(id) /\ IsToolCall(id)
    /\ calls[id].op \in {"generateImage", "analyzeMedia", "manipulateMedia"}

\* the text the tool answers for a failure outcome whose message embeds `message`
FailedWith(op, message) == ErrorPrefix \o FailurePrefix(op) \o message

\* the messages the operations return without an error having been thrown
EarlyMessages == { <<"No image generated">>, <<"No image data found in response">> }

MkdirFailureLogged == Line(<<"Failed to create output directory:">>) \in stderr

\* the text answered when fs.writeFile cannot open the path
WriteErrorText(op, path) ==
    FailedWith(op, <<"ENOENT: no such file or directory, open '">> \o path \o <<"'">>)

\* C26: when creating the output directory fails, generateImage and manipulateMedia
\* do not end there: the failure is logged on stderr, nothing is answered and the
\* operation goes on to its next step; when the file write then fails for the
\* missing directory, the API has been called and that failure is what is
\* returned, prefixed `Generation failed:` / `Manipulation failed:`.
C26_MkdirFailureOnlyLogged ==
    [][ \A id \in Ids :
          /\ (Awaiting(id, "mkdir") /\ calls'[id] # calls[id])
               => /\ calls'[id].st = "pending"
                  /\ calls'[id].pc = calls[id].pc + 1
                  /\ responses'[id] = <<>>
                  /\ geminiClient.outputDir \notin dirs'
                       => /\ dirs' = dirs
                          /\ Line(<<"Failed to create output directory:">>) \in stderr'
          /\ (Awaiting(id, "write") /\ calls'[id] # calls[id]
                 /\ dirname(calls[id].outputPath.s) \notin dirs)
               => /\ calls[id].apiCalls = 1
                  /\ files' = files
                  /\ IsTextResult(responses'[id][1])
                  /\ responses'[id][1].content[1].text
                       = WriteErrorText(calls[id].op, calls[id].outputPath.s) ]_vars

\* the directory could not be created, the API was called all the same and the
\* call was answered with the failure of the file write
C26_Witness ==
    /\ MkdirFailureLogged
    /\ geminiClient.constructed /\ geminiClient.outputDir \notin dirs
    /\ \E id \in Ids :
           /\ OperationEnded(id)
           /\ calls[id].op = "manipulateMedia"
           /\ calls[id].apiCalls = 1
           /\ responses[id][1].content[1].text
                = WriteErrorText("manipulateMedia", calls[id].outputPath.s)

\* the tool names of a tools/list result
ListedNames(r) == {r.tools[i] : i \in 1..Len(r.tools)}

\* a tools/call that passed initializeClient() and reached the switch
ReachedSwitch(id) ==
    /\ IsToolCall(id) /\ calls[id].st # "idle"
    /\ ~(Answered(id) /\ responses[id][1].kind = "error")

\* C27: the names tools/list advertises are the names the tools/call dispatcher
\* accepts: every listed name has a handler, and a call that reaches the dispatcher
\* is handed to a handler exactly when its name is listed (any other name is
\* answered `Unknown tool`).
C27_ListedIffDispatched ==
    \A id \in Ids :
        (Answered(id) /\ calls[id].method = "tools/list")
        => LET listed == ListedNames(responses[id][1])
           IN  /\ \A n \in listed \cup ToolNames : (Dispatch(n) # <<>>) <=> (n \in listed)
               /\ \A j \in Ids :
                    ReachedSwitch(j)
                    => /\ (calls[j].handlers # <<>>) <=> (calls[j].name \in listed)
                       /\ calls[j].name \notin listed
                            => /\ Answered(j)
                               /\ responses[j][1]
                                    = TextResult(ErrorPrefix \o <<"Unknown tool: ", calls[j].name>>)

\* the tools were listed and a call of the last listed name reached its handler
C27_Witness ==
    \E id, j \in Ids :
        /\ Answered(id) /\ calls[id].method = "tools/list"
        /\ ReachedSwitch(j)
        /\ calls[j].name = "manipulate_media"
        /\ calls[j].name \in ListedNames(responses[id][1])
        /\ calls[j].handlers = <<ToolHandler("manipulate_media")>>

\* the parameters of a call that are absent or falsy
MissingParams(id) == {p \in DOMAIN NoArgs : ~Truthy(calls[id].args[p])}

\* the call was answered `Error: <p> is required`
RejectedFor(id, p) ==
    /\ Answered(id)
    /\ responses[id][1] = TextResult(ErrorPrefix \o <<p, " is required">>)

\* C28: for each tool the advertised `required` list is the set of parameters whose
\* absence the handler rejects with `<name> is required`: a call with an arguments
\* object that reaches its handler is rejected exactly when an advertised required
\* parameter is missing, and then for such a parameter; a call that supplies the
\* advertised required parameters is handed to the client operation.
C28_RequiredIsRejected ==
    \A id \in Ids :
        /\ \A p \in DOMAIN NoArgs :
              (IsToolCall(id) /\ RejectedFor(id, p))
              => /\ calls[id].name \in RegisteredNames
                 /\ p \in RequiredOf(calls[id].name) \cap MissingParams(id)
        /\ (ReachedSwitch(id) /\ calls[id].handlers # <<>> /\ calls[id].hasArgs)
              => LET missing == RequiredOf(calls[id].name) \cap MissingParams(id)
                 IN  /\ missing # {}
                          => /\ calls[id].op = "none"
                             /\ \E p \in missing : RejectedFor(id, p)
                     /\ missing = {}
                          => /\ calls[id].op = ClientOp(calls[id].name)
                             /\ \A p \in DOMAIN NoArgs : ~RejectedFor(id, p)

\* manipulate_media without outputFile was rejected for it, and generate_media with
\* exactly its two advertised parameters was handed to the client
C28_Witness ==
    \E id, j \in Ids :
        /\ calls[id].name = "manipulate_media"
        /\ MissingParams(id) \cap RequiredOf("manipulate_media") = {"outputFile"}
        /\ RejectedFor(id, "outputFile")
        /\ calls[j].name = "generate_media"
        /\ DOMAIN NoArgs \ MissingParams(j) = RequiredOf("generate_media")
        /\ calls[j].args.prompt.t = "string" /\ calls[j].args.outputFile.t = "string"
        /\ calls[j].op = "generateImage"

\* the advertised `required` list of a tool, in its declared order
RequiredList(name) ==
    ToolCatalog[CHOOSE k \in 1..Len(ToolCatalog) : ToolCatalog[k].name = name].required

\* the positions of RequiredList(name) whose parameter the call lacks
MissingAt(id) ==
    {k \in 1..Len(RequiredList(calls[id].name)) :
        ~Truthy(calls[id].args[RequiredList(calls[id].name)[k]])}

\* C29: the checks of a tools/call happen in a fixed order and the response reports
\* the earliest fault: without the credential every call, whatever its name and
\* arguments, gets the credential error; with it the client is initialised and an
\* unlisted name gets `Unknown tool` whatever its arguments; a listed tool with
\* missing parameters gets `<name> is required` for the first of them in declared
\* order, without a client operation; only a call with no fault starts the client
\* operation.
C29_EarliestFaultReported ==
    \A id \in Ids :
        (IsToolCall(id) /\ calls[id].st # "idle")
        => LET c == calls[id]
           IN  IF ~Truthy(env.GEMINI_API_KEY)
               THEN /\ Answered(id)
                    /\ responses[id][1]
                         = TransportError(<<"GEMINI_API_KEY environment variable is required">>)
                    /\ ~geminiClient.constructed
                    /\ c.handlers = <<>> /\ c.op = "none"
               ELSE /\ geminiClient.constructed
                    /\ IF c.name \notin RegisteredNames
                       THEN /\ Answered(id)
                            /\ responses[id][1]
                                 = TextResult(ErrorPrefix \o <<"Unknown tool: ", c.name>>)
                            /\ c.op = "none"
                       ELSE /\ c.handlers # <<>>
                            /\ (c.hasArgs /\ MissingAt(id) # {})
                                 => /\ \E k \in MissingAt(id) :
                                         /\ \A m \in MissingAt(id) : k <= m
                                         /\ RejectedFor(id, RequiredList(c.name)[k])
                                    /\ c.op = "none" /\ c.apiCalls = 0
                            /\ (c.hasArgs /\ MissingAt(id) = {})
                                 => c.op = ClientOp(c.name)

\* with the credential present, an unknown tool called without arguments was
\* answered `Unknown tool`, and manipulate_media with all three parameters missing
\* was answered for the first one only
C29_Witness ==
    \E id, j \in Ids :
        /\ Answered(id) /\ IsToolCall(id)
        /\ calls[id].name = "bogus_tool" /\ ~calls[id].hasArgs
        /\ responses[id][1] = TextResult(ErrorPrefix \o <<"Unknown tool: ", "bogus_tool">>)
        /\ calls[j].name = "manipulate_media" /\ calls[j].hasArgs
        /\ MissingAt(j) = {1, 2, 3}
        /\ RejectedFor(j, "inputFile")

\* a generate_media or manipulate_media call answered with an `Error:` text
FailedWrite(id) ==
    /\ Answered(id) /\ IsToolCall(id)
    /\ calls[id].name \in WritingTools
    /\ IsTextResult(responses[id][1])
    /\ startsWith(responses[id][1].content[1].text, ErrorPrefix)

\* C30: a failed generate_media or manipulate_media invocation never creates or
\* modifies an output file: it has written nothing, a validation failure has called
\* neither the file system nor the API, the step that answers a failure leaves
\* directories and files as they were, every step of a request that changes a file
\* ends that request with the path, and the only directories a request creates are
\* the output directory and its ancestors.
C30_FailureWritesNothing ==
    /\ [](\A id \in Ids :
             FailedWrite(id)
             => /\ ~calls[id].wrote
                /\ calls[id].op = "none" => calls[id].apiCalls = 0 /\ calls[id].pc = 0)
    /\ [][ \A id \in Ids :
              /\ (~FailedWrite(id) /\ FailedWrite(id)')
                   => files' = files /\ dirs' = dirs
              /\ (calls'[id] # calls[id] /\ files' # files)
                   => /\ calls'[id].ok /\ calls'[id].wrote
                      /\ ReturnsPath(calls'[id].name, responses'[id][1])
              /\ dirs' # dirs
                   => dirs' = dirs \cup ancestors(geminiClient.outputDir) ]_vars

\* manipulate_media failed on an unreadable input after the output directory was
\* created: the directory is there, no file is
C30_Witness ==
    \E id \in Ids :
        /\ FailedWrite(id)
        /\ calls[id].op = "manipulateMedia"
        /\ calls[id].args.inputFile = Str(MissingInput)
        /\ geminiClient.outputDir \in dirs
        /\ files = InitialFiles

====
